---- MODULE Spec2Model ----
(***************************************************************************)
(* Model of the collaborative multi-agent workflow of src/agent/graph.py:  *)
(* the CollaborativeState record, the three node functions                 *)
(* (enhanced_architect, sql_analyst_step, developer_step), the two routers *)
(* (route_after_architect, route_after_sql) and the graph wiring.          *)
(*                                                                         *)
(* Text is modelled as a sequence of one-character strings, so that        *)
(* str.lower(), concatenation and the substring test `in` are computed as  *)
(* Python computes them.  The three agents are external calls: each call   *)
(* either raises or returns one of a bounded set of results.               *)
(***************************************************************************)
EXTENDS Integers, Sequences, FiniteSets, TLC

VARIABLES
    state,          \* the CollaborativeState record of the invocation
    pc,             \* the node or router the runtime runs next
    trace,          \* the nodes executed so far, in order
    architect_in,   \* the input enhanced_architect passed to swe_architect
    architect_out,  \* what swe_architect returned
    needs,          \* enhanced_architect's locals needs_sql / needs_code
    sql_in,         \* the input sql_analyst_step passed to sql_analyst
    sql_out,        \* what sql_analyst returned
    developer_in,   \* the input developer_step passed to swe_developer
    developer_out,  \* what swe_developer returned
    routed,         \* per router: the strategy it read and the value it returned
    environ,        \* os.environ of the process
    vault,          \* what get_credentials does when called: it raises or returns data
    config_pc,      \* where the import of the config package is
    cfg             \* the attributes of the cfg object, None while there is none

workflow_vars ==
    <<state, pc, trace, architect_in, architect_out, needs, sql_in, sql_out,
      developer_in, developer_out, routed>>

config_vars == <<environ, vault, config_pc, cfg>>

vars == <<workflow_vars, config_vars>>

-----------------------------------------------------------------------------
(* Bounds *)

\* longest text an agent returns, counted in pieces of Pieces
MaxPieces == 1

\* most messages in the scratchpad the workflow is invoked with
MaxScratch == 1

-----------------------------------------------------------------------------
(* Text *)

SQL_REQUIRED ==
    <<"[","S","Q","L","_","R","E","Q","U","I","R","E","D","]">>

CODE_REQUIRED ==
    <<"[","C","O","D","E","_","R","E","Q","U","I","R","E","D","]">>

SqlKeywords ==
    { <<"s","q","l">>,
      <<"q","u","e","r","y">>,
      <<"d","a","t","a","b","a","s","e">>,
      <<"d","a","t","a"," ","a","n","a","l","y","s","i","s">>,
      <<"a","n","a","l","y","t","i","c","s">>,
      <<"d","a","s","h","b","o","a","r","d">>,
      <<"r","e","p","o","r","t">> }

CodeKeywords ==
    { <<"i","m","p","l","e","m","e","n","t">>,
      <<"d","e","v","e","l","o","p">>,
      <<"c","o","d","e">>,
      <<"a","p","p","l","i","c","a","t","i","o","n">>,
      <<"a","p","i">>,
      <<"w","e","b">>,
      <<"s","o","f","t","w","a","r","e">> }

PLACEHOLDER ==
    <<"N","o"," ","s","p","e","c","i","f","i","c"," ","r","e","q","u","i","r","e","m","e","n","t","s"," ","p","r","o","v","i","d","e","d">>

\* the fragments the agents' texts are built from
Pieces ==
    { SQL_REQUIRED,
      CODE_REQUIRED,
      <<"R","e","p","o","r","t">>,
      <<"A","P","I">>,
      <<"o","k"," ">> }

RECURSIVE TextsUpTo(_)
TextsUpTo(n) ==
    IF n = 0 THEN { <<>> }
    ELSE LET shorter == TextsUpTo(n - 1)
         IN  shorter \cup { t \o p : t \in shorter, p \in Pieces }

Texts == TextsUpTo(MaxPieces)

\* str.lower() on one character: the upper-case letters become lower-case,
\* every other character is unchanged
LowerChar(c) ==
    CASE c = "A" -> "a" [] c = "B" -> "b" [] c = "C" -> "c" [] c = "D" -> "d"
      [] c = "E" -> "e" [] c = "F" -> "f" [] c = "G" -> "g" [] c = "H" -> "h"
      [] c = "I" -> "i" [] c = "J" -> "j" [] c = "K" -> "k" [] c = "L" -> "l"
      [] c = "M" -> "m" [] c = "N" -> "n" [] c = "O" -> "o" [] c = "P" -> "p"
      [] c = "Q" -> "q" [] c = "R" -> "r" [] c = "S" -> "s" [] c = "T" -> "t"
      [] c = "U" -> "u" [] c = "V" -> "v" [] c = "W" -> "w" [] c = "X" -> "x"
      [] c = "Y" -> "y" [] c = "Z" -> "z"
      [] OTHER -> c

Lower(text) == [i \in 1..Len(text) |-> LowerChar(text[i])]

\* Python's `needle in hay` on strings
Contains(hay, needle) ==
    \E i \in 0..(Len(hay) - Len(needle)) :
        SubSeq(hay, i + 1, i + Len(needle)) = needle

\* dict.get(key, default); a dict is a function from its keys
Get(dict, key, default) ==
    IF key \in DOMAIN dict THEN dict[key] ELSE default

\* str() of the implementation plan, a dict kept as its sequence of
\* <<key, value>> items in insertion order: {'k': 'v', 'k2': 'v2'}
RECURSIVE StrItems(_)
StrItems(items) ==
    IF items = <<>> THEN <<>>
    ELSE LET item == Head(items)
             one  == <<"'">> \o item[1] \o <<"'",":"," ","'">> \o item[2] \o <<"'">>
         IN  IF Len(items) = 1 THEN one
             ELSE one \o <<","," ">> \o StrItems(Tail(items))

StrDict(items) == <<"{">> \o StrItems(items) \o <<"}">>

-----------------------------------------------------------------------------
(* CollaborativeState *)

Fields ==
    { "implementation_research_scratchpad", "research_summary",
      "implementation_plan", "collaboration_plan", "sql_analysis_result",
      "sql_queries", "database_schema" }

None == [tag |-> "None"]

HumanMessage(content) == [type |-> "human", content |-> content]

AIMessage(content) == [type |-> "ai", content |-> content]

\* the add_messages reducer of the scratchpad field: the update is appended
add_messages(left, right) == left \o right

\* the field defaults of CollaborativeState
Defaults ==
    [implementation_research_scratchpad |-> <<>>,
     research_summary |-> <<>>,
     implementation_plan |-> <<>>,
     collaboration_plan |-> <<>>,
     sql_analysis_result |-> None,
     sql_queries |-> <<>>,
     database_schema |-> <<>>]

\* the runtime's merge of a node's return value into the state: by field
\* name, the scratchpad through its reducer, every other field overwritten
Merge(st, delta) ==
    [f \in Fields |->
        IF f \in DOMAIN delta
        THEN IF f = "implementation_research_scratchpad"
             THEN add_messages(st[f], delta[f])
             ELSE delta[f]
        ELSE st[f]]

-----------------------------------------------------------------------------
(* The config package: src/config/__init__.py, shared.py, development.py *)

StrValue(text) == [kind |-> "str", v |-> text]

IntValue(n) == [kind |-> "int", v |-> n]

BoolValue(b) == [kind |-> "bool", v |-> b]

\* a dict with keys that are texts, from its <<key, value>> pairs
DictOf(pairs) ==
    [k \in { p[1] : p \in pairs } |-> (CHOOSE p \in pairs : p[1] = k)[2]]

TOKEN == <<"T","O","K","E","N">>

OPENAI_API_KEY == <<"O","P","E","N","A","I","_","A","P","I","_","K","E","Y">>

\* the attributes dir() lists on a Shared instance (of the dunder names, one)
Shared(env) ==
    DictOf({
        <<<<"D","O","M","A","I","N">>,
          StrValue(<<"u","s","a","g","e","_","a","i">>)>>,
        <<<<"M","O","D","E","L","_","N","A","M","E">>,
          StrValue(<<"g","p","t","-","4","o">>)>>,
        <<<<"v","a","u","l","t","_","c","o","n","f","i","g","_","k","e","y">>,
          StrValue(<<"s","e","c","r","e","t","/","b","d","n","d","/","b","e","d","r","o","c","k","_","a","g","e","n","t">>)>>,
        <<<<"O","P","E","N","_","A","I">>,
          StrValue(IF OPENAI_API_KEY \in DOMAIN env THEN env[OPENAI_API_KEY] ELSE <<>>)>>,
        <<<<"M","C","P","_","S","E","R","V","E","R">>,
          StrValue(<<"h","t","t","p",":","/","/","l","o","c","a","l","h","o","s","t",":","8","0","8","0">>)>>,
        <<<<"S","T","U","D","I","O","_","U","R","L">>,
          StrValue(<<"h","t","t","p",":","/","/","l","o","c","a","l","h","o","s","t",":","8","0","0","0">>)>>,
        <<<<"S","T","U","D","I","O","_","A","P","I","_","K","E","Y">>,
          StrValue(<<"l","s","v","2","_","p","t","_","0","e","6","5","d","d","3","4","5","8","6","3","4","5","b","f","b","b","e","a","6","8","7","2","9","7","0","3","6","c","0","9","_","1","3","5","1","b","a","6","0","9","7">>)>>,
        <<<<"S","T","U","D","I","O","_","E","N","A","B","L","E","D">>,
          BoolValue(FALSE)>>,
        <<<<"M","A","X","_","R","E","T","R","I","E","S">>,
          IntValue(2)>>,
        <<<<"T","I","M","E","O","U","T">>,
          IntValue(50)>>,
        <<<<"D","E","B","U","G">>,
          BoolValue(TRUE)>>,
        <<<<"_","_","m","o","d","u","l","e","_","_">>,
          StrValue(<<"c","o","n","f","i","g",".","s","h","a","r","e","d">>)>> })

\* the attributes dir() lists on a development Conf instance
Conf ==
    DictOf({
        <<<<"M","C","P","_","S","E","R","V","E","R">>,
          StrValue(<<"h","t","t","p",":","/","/","e","n","v","-","s","t","g",".","b","d","n","d","-","a","i","-","i","n","f","r","a","-","d","e","f","a","u","l","t",".","s","e","r","v","i","c","e",".","p","r","d","v","2","-","e","u","w","1","-","g","e","n","e","r","a","l",".","c","o","n","s","u","l",":","8","0","8","0">>)>>,
        <<<<"D","O","M","A","I","N">>,
          StrValue(<<"u","s","a","g","e","_","a","i">>)>>,
        <<<<"M","O","D","E","L","_","N","A","M","E">>,
          StrValue(<<"g","p","t","-","4","o">>)>>,
        <<<<"M","A","X","_","R","E","T","R","I","E","S">>,
          IntValue(2)>>,
        <<<<"T","I","M","E","O","U","T">>,
          IntValue(50)>>,
        <<<<"S","T","U","D","I","O","_","E","N","A","B","L","E","D">>,
          BoolValue(FALSE)>>,
        <<<<"v","a","u","l","t","_","c","o","n","f","i","g","_","k","e","y">>,
          StrValue(<<"s","e","c","r","e","t","/","b","d","n","d","/","b","e","d","r","o","c","k","_","a","g","e","n","t">>)>>,
        <<<<"_","_","m","o","d","u","l","e","_","_">>,
          StrValue(<<"c","o","n","f","i","g",".","d","e","v","e","l","o","p","m","e","n","t">>)>> })

StartsWith(text, prefix) ==
    Len(text) >= Len(prefix) /\ SubSeq(text, 1, Len(prefix)) = prefix

convert_class_to_json(obj) ==
    [name \in { n \in DOMAIN obj : ~StartsWith(n, <<"_","_">>) } |-> obj[name]]

\* the characters of int()'s decimal digits
DecimalDigits == <<"0","1","2","3","4","5","6","7","8","9">>

\* a character str.isdigit() accepts and int() rejects
SUPERSCRIPT_TWO == "²"

IsDecimal(c) == \E d \in 1..Len(DecimalDigits) : DecimalDigits[d] = c

\* str.isdigit(): non-empty, and every character is a digit
IsDigit(text) ==
    /\ text # <<>>
    /\ \A i \in 1..Len(text) : IsDecimal(text[i]) \/ text[i] = SUPERSCRIPT_TWO

\* int(text) raises ValueError
IntRaises(text) == \E i \in 1..Len(text) : ~IsDecimal(text[i])

RECURSIVE IntOf(_)
IntOf(text) ==
    IF text = <<>> THEN 0
    ELSE 10 * IntOf(SubSeq(text, 1, Len(text) - 1))
           + (CHOOSE d \in 1..Len(DecimalDigits) :
                  DecimalDigits[d] = text[Len(text)]) - 1

BoolWords ==
    { <<"T","r","u","e">>, <<"t","r","u","e">>,
      <<"F","a","l","s","e">>, <<"f","a","l","s","e">> }

convert_str_to_org_type(env_variable) ==
    IF IsDigit(env_variable) THEN IntValue(IntOf(env_variable))
    ELSE IF env_variable \in BoolWords
    THEN BoolValue(env_variable \in { <<"T","r","u","e">>, <<"t","r","u","e">> })
    ELSE StrValue(env_variable)

\* the os_env comprehension raises: a value passes isdigit() and int() rejects it
OsEnvRaises(env) ==
    \E k \in DOMAIN env : IsDigit(env[k]) /\ IntRaises(env[k])

\* os_env: the names lower-cased, the values converted
OsEnv(env) ==
    DictOf({ <<Lower(k),
               IF ~IsDigit(env[k]) /\ env[k] \notin BoolWords
               THEN StrValue(env[k])
               ELSE convert_str_to_org_type(env[k])>> : k \in DOMAIN env })

\* setattr of every item of one source
SetAttrs(attrs, props_dct) ==
    [k \in DOMAIN attrs \cup DOMAIN props_dct |->
        IF k \in DOMAIN props_dct THEN props_dct[k] ELSE attrs[k]]

RECURSIVE GenericConfFrom(_, _)
GenericConfFrom(attrs, confs_list) ==
    IF confs_list = <<>> THEN attrs
    ELSE GenericConfFrom(SetAttrs(attrs, Head(confs_list).props), Tail(confs_list))

\* GenericConf.__init__: the attributes of the new object; a source is a
\* dict, taken as it is, or an object, taken through convert_class_to_json
GenericConf(confs_list) == GenericConfFrom(<<>>, confs_list)

IsDict(props) == [is_dict |-> TRUE, props |-> props]

IsObject(obj) == [is_dict |-> FALSE, props |-> convert_class_to_json(obj)]

\* the environment: per variable, unset or one of two values
EnvironValues ==
    DictOf({ <<TOKEN, << <<>>, <<"t","0","k">> >> >>,
             <<<<"T","I","M","E","O","U","T">>, << <<"7">>, <<"1", SUPERSCRIPT_TWO>> >> >>,
             <<<<"D","E","B","U","G">>, << <<"f","a","l","s","e">>, <<"y","e","s">> >> >>,
             <<OPENAI_API_KEY, << <<"s","k">> >> >> })

Environs ==
    { [k \in { n \in DOMAIN pick : pick[n] # 0 } |-> EnvironValues[k][pick[k]]] :
        pick \in { f \in [DOMAIN EnvironValues -> 0..2] :
                       \A n \in DOMAIN f : f[n] <= Len(EnvironValues[n]) } }

\* get_credentials: it raises, or it returns a dict of settings
VaultOutcomes ==
    { [raises |-> TRUE, data |-> <<>>] }
    \cup
    { [raises |-> FALSE, data |-> d] :
        d \in { <<>>,
                DictOf({ <<<<"a","p","i","_","k","e","y">>, StrValue(<<"s","e","c","r","e","t">>)>> }),
                DictOf({ <<<<"a","p","i","_","k","e","y">>, StrValue(<<"s","e","c","r","e","t">>)>>,
                         <<<<"M","C","P","_","S","E","R","V","E","R">>, StrValue(<<"v","a","u","l","t">>)>>,
                         <<<<"t","i","m","e","o","u","t">>, IntValue(5)>> }) } }

LocalConfs(env) == << IsObject(Shared(env)), IsObject(Conf), IsDict(OsEnv(env)) >>

-----------------------------------------------------------------------------
(* The external agents: what a call may return *)

\* the contents a scratchpad message of the caller may have
Requests ==
    { <<"B","u","i","l","d"," ","i","t">>, <<"F","i","x"," ","i","t">> }

RECURSIVE ScratchpadsUpTo(_)
ScratchpadsUpTo(n) ==
    IF n = 0 THEN { <<>> }
    ELSE LET shorter == ScratchpadsUpTo(n - 1)
         IN  shorter \cup { s \o <<HumanMessage(r)>> : s \in shorter, r \in Requests }

Schemas == { <<>>, <<"t","(","i","d",")">> }

\* an implementation plan: the empty dict, or one entry whose value is a text
Plans == { <<>> } \cup { << <<<<"t","a","s","k","s">>, t>> >> : t \in Texts }

\* swe_architect's result: a dict in which either key may be missing
ArchitectResults ==
    { [k \in {"research_summary"} |-> rs] : rs \in Texts }
    \cup { [k \in {"implementation_plan"} |-> ip] : ip \in Plans }
    \cup { [research_summary |-> rs, implementation_plan |-> ip] :
               rs \in Texts, ip \in Plans }
    \cup { <<>> }

SQLAnalysisResult(query, warnings) ==
    [tag |-> "SQLAnalysisResult", query |-> query,
     explanation |-> <<"e","x","p","l">>, confidence |-> 9, warnings |-> warnings]

Queries == { <<>>, <<"S","E","L","E","C","T"," ","1">> }

Warnings == { <<>>, << <<"s","l","o","w">> >> }

\* sql_analyst's result: a dict whose sql_analysis_result key may be missing
SqlAgentResults ==
    { <<>> }
    \cup { [sql_analysis_result |-> SQLAnalysisResult(q, w)] :
               q \in Queries, w \in Warnings }

-----------------------------------------------------------------------------
(* enhanced_architect *)

\* the f-string of the enhanced message: the request, then the fixed
\* instructions (kept as one symbol: no code reads inside them)
EnhancedContent(original_content) ==
    <<"\n    ">> \o original_content
        \o <<"\n    \n    COLLABORATION ANALYSIS INSTRUCTIONS: ...">>

\* OriginalContent with the empty text for an empty scratchpad
OriginalContentEmpty(st) ==
    LET pad == st["implementation_research_scratchpad"]
    IN  IF pad # <<>> THEN pad[Len(pad)].content ELSE <<>>

OriginalContent(st) ==
    LET pad == st["implementation_research_scratchpad"]
    IN  IF pad # <<>> THEN pad[Len(pad)].content ELSE PLACEHOLDER

EnhancedState(st) ==
    [implementation_research_scratchpad |->
        << HumanMessage(EnhancedContent(OriginalContent(st))) >>]

PlanText(result) ==
    IF "implementation_plan" \in DOMAIN result
    THEN StrDict(result["implementation_plan"])
    ELSE <<>>

ResearchText(result) == Get(result, "research_summary", <<>>)

\* NeedsSql with the empty string among the keywords
NeedsSqlEmptyKeyword(plan_text, research_text) ==
    \/ Contains(plan_text, SQL_REQUIRED)
    \/ \E keyword \in SqlKeywords \cup { <<>> } :
           Contains(Lower(plan_text \o research_text), keyword)

\* NeedsSql with the keyword test on the text as written, not lower-cased
NeedsSqlNoLower(plan_text, research_text) ==
    \/ Contains(plan_text, SQL_REQUIRED)
    \/ \E keyword \in SqlKeywords :
           Contains(plan_text \o research_text, keyword)

NeedsSql(plan_text, research_text) ==
    \/ Contains(plan_text, SQL_REQUIRED)
    \/ \E keyword \in SqlKeywords :
           Contains(Lower(plan_text \o research_text), keyword)

NeedsCode(plan_text, research_text) ==
    \/ Contains(plan_text, CODE_REQUIRED)
    \/ \E keyword \in CodeKeywords :
           Contains(Lower(plan_text \o research_text), keyword)

\* CollaborationPlan with the last branch falling to the SQL analyst
CollaborationPlanElseSql(needs_sql, needs_code) ==
    IF needs_sql /\ needs_code
    THEN [strategy |-> "collaborative", steps |-> <<>>]
    ELSE IF needs_sql \/ ~needs_code
    THEN [strategy |-> "sql_only", steps |-> <<>>]
    ELSE [strategy |-> "code_only", steps |-> <<>>]

CollaborationPlan(needs_sql, needs_code) ==
    IF needs_sql /\ needs_code
    THEN [strategy |-> "collaborative",
          steps |-> << "1. SQL Analyst: Analyze data requirements and create optimized queries",
                       "2. Pass SQL results to Developer",
                       "3. Developer: Implement application using SQL queries" >>]
    ELSE IF needs_sql
    THEN [strategy |-> "sql_only",
          steps |-> << "1. SQL Analyst: Complete data analysis" >>]
    ELSE IF needs_code
    THEN [strategy |-> "code_only",
          steps |-> << "1. Developer: Implement software solution" >>]
    ELSE [strategy |-> "code_only",
          steps |-> << "1. Developer: Implement basic solution" >>]

\* the dict enhanced_architect returns, given what swe_architect returned
enhanced_architect(result) ==
    [research_summary |-> Get(result, "research_summary", <<>>),
     implementation_plan |-> Get(result, "implementation_plan", <<>>),
     collaboration_plan |->
        CollaborationPlan(NeedsSql(PlanText(result), ResearchText(result)),
                          NeedsCode(PlanText(result), ResearchText(result)))]

-----------------------------------------------------------------------------
(* The routers *)

\* route_after_architect that sends only code_only to the developer
route_after_architect_only_code_only(st) ==
    LET strategy == Get(st["collaboration_plan"], "strategy", "code_only")
    IN  IF strategy = "code_only" THEN "developer" ELSE "sql_analyst"

\* route_after_architect without its sql_only branch
route_after_architect_no_sql_only(st) ==
    LET strategy == Get(st["collaboration_plan"], "strategy", "code_only")
    IN  IF strategy = "collaborative" THEN "sql_analyst" ELSE "developer"

route_after_architect(st) ==
    LET strategy == Get(st["collaboration_plan"], "strategy", "code_only")
    IN  IF strategy = "collaborative" THEN "sql_analyst"
        ELSE IF strategy = "sql_only" THEN "sql_analyst"
        ELSE "developer"

\* route_after_sql that goes on to the developer only when there is a query
route_after_sql_needs_query(st) ==
    LET strategy == Get(st["collaboration_plan"], "strategy", "code_only")
    IN  IF strategy = "collaborative" /\ st["sql_queries"] # <<>>
        THEN "developer"
        ELSE "end"

\* route_after_sql that goes on to the developer unless the strategy is code_only
route_after_sql_unless_code_only(st) ==
    LET strategy == Get(st["collaboration_plan"], "strategy", "code_only")
    IN  IF strategy # "code_only" THEN "developer" ELSE "end"

route_after_sql(st) ==
    LET strategy == Get(st["collaboration_plan"], "strategy", "code_only")
    IN  IF strategy = "collaborative" THEN "developer"
        ELSE "end"

-----------------------------------------------------------------------------
(* sql_analyst_step *)

SqlRequirements(st) ==
    LET pad == st["implementation_research_scratchpad"]
        original_request == IF pad # <<>> THEN pad[Len(pad)].content ELSE <<>>
    IN  <<"\n    Original Request: ">> \o original_request
            \o <<"\n    \n    Architect's Analysis: ">> \o st["research_summary"]
            \o <<"\n    \n    Implementation Plan Context: ">>
            \o StrDict(st["implementation_plan"])
            \o <<"\n    \n    Please create optimized SQL queries ...">>

SqlInput(st) ==
    [requirements |-> SqlRequirements(st),
     schema_information |->
        IF st["database_schema"] # <<>> THEN st["database_schema"]
        ELSE <<"Schema not provided - create optimal generic queries">>]

\* sql_analyst_step that returns a whole fresh state record holding its two
\* outputs, every other field at its default
sql_analyst_step_fresh_state(result) ==
    LET sql_result == Get(result, "sql_analysis_result", None)
        queries == IF sql_result # None /\ sql_result.query # <<>>
                   THEN << sql_result.query >>
                   ELSE <<>>
    IN  [Defaults EXCEPT !.sql_analysis_result = sql_result,
                         !.sql_queries = queries]

\* sql_analyst_step that takes the query without testing that it is non-empty
sql_analyst_step_any_query(result) ==
    LET sql_result == Get(result, "sql_analysis_result", None)
        queries == IF sql_result # None THEN << sql_result.query >> ELSE <<>>
    IN  [sql_analysis_result |-> sql_result, sql_queries |-> queries]

\* the dict sql_analyst_step returns, given what sql_analyst returned
sql_analyst_step(result) ==
    LET sql_result == Get(result, "sql_analysis_result", None)
        queries == IF sql_result # None /\ sql_result.query # <<>>
                   THEN << sql_result.query >>
                   ELSE <<>>
    IN  [sql_analysis_result |-> sql_result, sql_queries |-> queries]

-----------------------------------------------------------------------------
(* developer_step *)

SqlContext(sql_result) ==
    <<"\n        SQL ANALYSIS RESULTS:\n        \n        Query: ">>
        \o sql_result.query
        \o <<"\n        \n        Explanation: ">> \o sql_result.explanation
        \o <<"\n        \n        Confidence: ", sql_result.confidence>>
        \o <<"\n        \n        Warnings: ">>
        \o (IF sql_result.warnings # <<>> THEN <<sql_result.warnings>>
            ELSE <<"N","o","n","e">>)
        \o <<"\n        \n        INTEGRATION INSTRUCTIONS: ...">>

PlanContext(st) ==
    <<"\n        ARCHITECT'S IMPLEMENTATION PLAN:\n        ">>
        \o StrDict(st["implementation_plan"])
        \o <<"\n        \n        COLLABORATION STRATEGY: ">>
        \o <<Get(st["collaboration_plan"], "strategy", "unknown")>>
        \o <<"\n        ">>

\* DeveloperMessages with the plan context appended before the SQL context
DeveloperMessagesPlanFirst(st) ==
    LET copy == st["implementation_research_scratchpad"]
        with_plan ==
            IF st["implementation_plan"] # <<>>
            THEN Append(copy, AIMessage(PlanContext(st)))
            ELSE copy
    IN  IF st["sql_analysis_result"] # None
        THEN Append(with_plan, AIMessage(SqlContext(st["sql_analysis_result"])))
        ELSE with_plan

\* DeveloperMessages without the SQL context
DeveloperMessagesNoSql(st) ==
    LET copy == st["implementation_research_scratchpad"]
    IN  IF st["implementation_plan"] # <<>>
        THEN Append(copy, AIMessage(PlanContext(st)))
        ELSE copy

DeveloperMessages(st) ==
    LET copy == st["implementation_research_scratchpad"]
        with_sql ==
            IF st["sql_analysis_result"] # None
            THEN Append(copy, AIMessage(SqlContext(st["sql_analysis_result"])))
            ELSE copy
    IN  IF st["implementation_plan"] # <<>>
        THEN Append(with_sql, AIMessage(PlanContext(st)))
        ELSE with_sql

DeveloperInput(st) ==
    [implementation_research_scratchpad |-> DeveloperMessages(st),
     implementation_plan |-> st["implementation_plan"]]

\* swe_developer's result: any mapping; four shapes of it
DeveloperResults ==
    { <<>>,
      [implementation_research_scratchpad |-> << AIMessage(<<"d","o","n","e">>) >>],
      [collaboration_plan |-> [strategy |-> "unknown"]],
      [sql_queries |-> << <<"S","E","L","E","C","T"," ","1">>,
                          <<"S","E","L","E","C","T"," ","2">> >>] }

\* the dict developer_step returns, given what swe_developer returned
developer_step(result) == result

-----------------------------------------------------------------------------
(* The workflow *)

\* add_edge(START, "architect")
StartEdge == "architect"

\* the path map of the conditional edges out of "architect"
ArchitectEdges == [sql_analyst |-> "sql_analyst", developer |-> "developer"]

\* a path map that sends the terminal signal of route_after_sql on to the
\* developer
SqlEdgesEndToDeveloper == [developer |-> "developer", end |-> "developer"]

\* the path map of the conditional edges out of "sql_analyst"
SqlEdges == [developer |-> "developer", end |-> "END"]

\* an edge from "developer" back to "sql_analyst" instead of END
DeveloperEdgeToSql == "sql_analyst"

\* add_edge("developer", END)
DeveloperEdge == "END"

\* a node that swallows the exception of its agent call and returns nothing
AfterRaiseCaught(node) ==
    CASE node = "architect" -> "route_after_architect"
      [] node = "sql_analyst" -> "route_after_sql"
      [] node = "developer" -> "END"

\* where the invocation is once the agent call of a node has raised: no node
\* has a try/except, so the exception leaves the graph
AfterRaise(node) == "failed"

NotRouted == [strategy |-> "", next |-> ""]

Init ==
    /\ \E pad \in ScratchpadsUpTo(MaxScratch), schema \in Schemas :
           state = [Defaults EXCEPT !.implementation_research_scratchpad = pad,
                                    !.database_schema = schema]
    /\ pc = StartEdge
    /\ trace = <<>>
    /\ architect_in = None
    /\ architect_out = None
    /\ needs = None
    /\ sql_in = None
    /\ sql_out = None
    /\ developer_in = None
    /\ developer_out = None
    /\ routed = [architect |-> NotRouted, sql |-> NotRouted]
    /\ environ = <<>>
    /\ vault = [raises |-> TRUE, data |-> <<>>]
    /\ config_pc = "loaded"
    /\ cfg = GenericConf(LocalConfs(<<>>))

\* node "architect": enhanced_architect runs and its return value is merged;
\* an exception of the agent call leaves the node and ends the invocation
ArchitectNode ==
    /\ pc = "architect"
    /\ UNCHANGED config_vars
    /\ trace' = Append(trace, "architect")
    /\ architect_in' = EnhancedState(state)
    /\ \/ /\ pc' = AfterRaise("architect")
          /\ UNCHANGED <<state, architect_out, needs>>
       \/ \E result \in ArchitectResults :
              /\ architect_out' = result
              /\ needs' = [sql |-> NeedsSql(PlanText(result), ResearchText(result)),
                           code |-> NeedsCode(PlanText(result), ResearchText(result))]
              /\ state' = Merge(state, enhanced_architect(result))
              /\ pc' = "route_after_architect"
    /\ UNCHANGED <<sql_in, sql_out, developer_in, developer_out, routed>>

\* the conditional edges out of "architect"
RouteAfterArchitect ==
    /\ pc = "route_after_architect"
    /\ UNCHANGED config_vars
    /\ LET next == route_after_architect(state)
       IN  /\ routed' = [routed EXCEPT !.architect =
                            [strategy |-> Get(state["collaboration_plan"],
                                              "strategy", "code_only"),
                             next |-> next]]
           /\ pc' = ArchitectEdges[next]
    /\ UNCHANGED <<state, trace, architect_in, architect_out, needs, sql_in,
                   sql_out, developer_in, developer_out>>

\* node "sql_analyst"
SqlAnalystNode ==
    /\ pc = "sql_analyst"
    /\ UNCHANGED config_vars
    /\ trace' = Append(trace, "sql_analyst")
    /\ sql_in' = SqlInput(state)
    /\ \/ /\ pc' = AfterRaise("sql_analyst")
          /\ UNCHANGED <<state, sql_out>>
       \/ \E result \in SqlAgentResults :
              /\ sql_out' = result
              /\ state' = Merge(state, sql_analyst_step(result))
              /\ pc' = "route_after_sql"
    /\ UNCHANGED <<architect_in, architect_out, needs, developer_in,
                   developer_out, routed>>

\* the conditional edges out of "sql_analyst"
RouteAfterSql ==
    /\ pc = "route_after_sql"
    /\ UNCHANGED config_vars
    /\ LET next == route_after_sql(state)
       IN  /\ routed' = [routed EXCEPT !.sql =
                            [strategy |-> Get(state["collaboration_plan"],
                                              "strategy", "code_only"),
                             next |-> next]]
           /\ pc' = SqlEdges[next]
    /\ UNCHANGED <<state, trace, architect_in, architect_out, needs, sql_in,
                   sql_out, developer_in, developer_out>>

\* node "developer", then the edge to END
DeveloperNode ==
    /\ pc = "developer"
    /\ UNCHANGED config_vars
    /\ trace' = Append(trace, "developer")
    /\ developer_in' = DeveloperInput(state)
    /\ \/ /\ pc' = AfterRaise("developer")
          /\ UNCHANGED <<state, developer_out>>
       \/ \E result \in DeveloperResults :
              /\ developer_out' = result
              /\ state' = Merge(state, developer_step(result))
              /\ pc' = DeveloperEdge
    /\ UNCHANGED <<architect_in, architect_out, needs, sql_in, sql_out, routed>>

Next ==
    \/ ArchitectNode
    \/ RouteAfterArchitect
    \/ SqlAnalystNode
    \/ RouteAfterSql
    \/ DeveloperNode

Spec == Init /\ [][Next]_vars

\* the runtime runs the next node or router as soon as the previous one has
\* returned: a run does not stop while a step is left to take
LiveSpec == Spec /\ WF_vars(Next)

-----------------------------------------------------------------------------
(* The routers as pure functions: any state, one router applied to it *)

CollaborationPlans ==
    { <<>>,
      [steps |-> <<>>],
      [strategy |-> "unknown"],
      [strategy |-> ""] }
    \cup { CollaborationPlan(s, c) : s \in BOOLEAN, c \in BOOLEAN }

\* what the SQL fields of a state may hold: nothing, or a result and its query
SqlFields ==
    { sql_analyst_step(<<>>),
      sql_analyst_step([sql_analysis_result |->
          SQLAnalysisResult(<<"S","E","L","E","C","T"," ","1">>, <<>>)]) }

RouterStates ==
    { [implementation_research_scratchpad |-> pad,
       research_summary |-> rs,
       implementation_plan |-> ip,
       collaboration_plan |-> cp,
       sql_analysis_result |-> sf.sql_analysis_result,
       sql_queries |-> sf.sql_queries,
       database_schema |-> schema] :
          pad \in ScratchpadsUpTo(MaxScratch), schema \in Schemas,
          cp \in CollaborationPlans, ip \in Plans,
          rs \in {<<>>, <<"o","k"," ">>}, sf \in SqlFields }

RouterInit ==
    /\ state \in RouterStates
    /\ pc \in {"route_after_architect", "route_after_sql"}
    /\ trace = <<>>
    /\ architect_in = None
    /\ architect_out = None
    /\ needs = None
    /\ sql_in = None
    /\ sql_out = None
    /\ developer_in = None
    /\ developer_out = None
    /\ routed = [architect |-> NotRouted, sql |-> NotRouted]
    /\ environ = <<>>
    /\ vault = [raises |-> TRUE, data |-> <<>>]
    /\ config_pc = "loaded"
    /\ cfg = GenericConf(LocalConfs(<<>>))

RouterNext ==
    \/ RouteAfterArchitect
    \/ RouteAfterSql

RouterSpec == RouterInit /\ [][RouterNext]_vars

-----------------------------------------------------------------------------
(* The import of the config package *)

ConfigInit ==
    /\ environ \in Environs
    /\ vault \in VaultOutcomes
    /\ config_pc = "import"
    /\ cfg = None
    /\ state = Defaults
    /\ pc = StartEdge
    /\ trace = <<>>
    /\ architect_in = None
    /\ architect_out = None
    /\ needs = None
    /\ sql_in = None
    /\ sql_out = None
    /\ developer_in = None
    /\ developer_out = None
    /\ routed = [architect |-> NotRouted, sql |-> NotRouted]

TokenSet(env) == TOKEN \in DOMAIN env /\ env[TOKEN] # <<>>

\* the module body from shared_config = Shared() to the end of the
\* try/except: os_env is built outside the try, the vault is read inside it
LoadConfig ==
    /\ config_pc = "import"
    /\ UNCHANGED <<workflow_vars, environ, vault>>
    /\ \/ /\ OsEnvRaises(environ)
          /\ config_pc' = "raised"
          /\ cfg' = cfg
       \/ /\ ~OsEnvRaises(environ)
          /\ TokenSet(environ)
          /\ ~vault.raises
          /\ cfg' = GenericConf(<<IsDict(vault.data)>> \o LocalConfs(environ))
          /\ config_pc' = "loaded"
       \/ /\ ~OsEnvRaises(environ)
          /\ TokenSet(environ)
          /\ vault.raises
          /\ cfg' = GenericConf(LocalConfs(environ))
          /\ config_pc' = "loaded"
       \/ /\ ~OsEnvRaises(environ)
          /\ ~TokenSet(environ)
          /\ cfg' = GenericConf(LocalConfs(environ))
          /\ config_pc' = "loaded"

ConfigNext == LoadConfig

ConfigSpec == ConfigInit /\ [][ConfigNext]_vars

-----------------------------------------------------------------------------
(* Properties *)

Strategies == {"collaborative", "sql_only", "code_only"}

Paths ==
    { <<"architect", "developer">>,
      <<"architect", "sql_analyst">>,
      <<"architect", "sql_analyst", "developer">> }

IsPrefix(s, t) == Len(s) <= Len(t) /\ SubSeq(t, 1, Len(s)) = s

Ran(node) == \E i \in 1..Len(trace) : trace[i] = node

\* C1: the nodes executed so far are always a prefix of architect, developer
\* or architect, sql_analyst or architect, sql_analyst, developer (so the
\* architect is first and runs once, and sql_analyst never follows the
\* developer); a run that reaches END executed exactly one of the three; and
\* once the developer has run nothing is left to run.
C1_NodeSequence ==
    /\ \E p \in Paths : IsPrefix(trace, p)
    /\ pc = "END" => trace \in Paths
    /\ Ran("developer") => pc \in {"END", "failed"}

C1_Witness ==
    pc = "END" /\ trace = <<"architect", "sql_analyst", "developer">>

\* C2: the node route_after_architect returns on the state the architect
\* step produced is sql_analyst exactly when needs_sql is true and developer
\* exactly when it is false, never a third value; and a run with needs_sql
\* false that reaches END executed architect, developer.
C2_PathFollowsNeedsSql ==
    /\ routed.architect.next # "" =>
           /\ routed.architect.next \in {"sql_analyst", "developer"}
           /\ routed.architect.next = "sql_analyst" <=> needs.sql
           /\ routed.architect.next = "developer" <=> ~needs.sql
    /\ (needs # None /\ ~needs.sql) => ~Ran("sql_analyst")
    /\ (pc = "END" /\ ~needs.sql) => trace = <<"architect", "developer">>

C2_Witness ==
    /\ pc = "END"
    /\ ~needs.sql
    /\ routed.architect.next = "developer"
    /\ trace = <<"architect", "developer">>

NoKeywordNorMarker(result) ==
    LET text == PlanText(result) \o ResearchText(result)
    IN  /\ ~Contains(text, SQL_REQUIRED)
        /\ ~Contains(text, CODE_REQUIRED)
        /\ \A keyword \in SqlKeywords \cup CodeKeywords :
               ~Contains(Lower(text), keyword)

\* C3: the state the architect step produces has the strategy of the decision
\* table: collaborative for (needs_sql, needs_code) = (true, true), sql_only
\* for (true, false), code_only for (false, true) and for (false, false); and
\* it is code_only when the architect's output has no keyword and no marker.
C3_DecisionTable ==
    pc = "route_after_architect" =>
        LET strategy == state["collaboration_plan"].strategy
        IN  /\ (needs.sql /\ needs.code) => strategy = "collaborative"
            /\ (needs.sql /\ ~needs.code) => strategy = "sql_only"
            /\ (~needs.sql /\ needs.code) => strategy = "code_only"
            /\ (~needs.sql /\ ~needs.code) => strategy = "code_only"
            /\ NoKeywordNorMarker(architect_out) => strategy = "code_only"

C3_Witness ==
    /\ pc = "route_after_architect"
    /\ NoKeywordNorMarker(architect_out)
    /\ ~needs.sql /\ ~needs.code
    /\ state["collaboration_plan"].strategy = "code_only"

StrategyOf(st) == Get(st["collaboration_plan"], "strategy", "unset")

\* C4: route_after_architect returns sql_analyst when the strategy is
\* collaborative or sql_only and developer in every other case (code_only,
\* no strategy, an unrecognized strategy); it returns on every state.
C4_RouteAfterArchitect ==
    /\ pc = "route_after_architect" => ENABLED RouteAfterArchitect
    /\ routed.architect.next # "" =>
           routed.architect.next =
               IF StrategyOf(state) \in {"collaborative", "sql_only"}
               THEN "sql_analyst"
               ELSE "developer"

C4_Witness ==
    /\ routed.architect.next = "developer"
    /\ StrategyOf(state) = "unknown"

\* C5: route_after_sql returns developer when the strategy is collaborative
\* and the terminal signal in every other case (sql_only, code_only, no
\* strategy, an unrecognized strategy), and the terminal signal leads to END.
C5_RouteAfterSql ==
    /\ pc = "route_after_sql" => ENABLED RouteAfterSql
    /\ routed.sql.next # "" =>
           /\ routed.sql.next =
                  IF StrategyOf(state) = "collaborative" THEN "developer" ELSE "end"
           /\ StrategyOf(state) = "sql_only" =>
                  (routed.sql.next # "developer" /\ pc = "END")

C5_Witness ==
    /\ routed.sql.next = "end"
    /\ StrategyOf(state) = "sql_only"
    /\ pc = "END"

\* C6: once the architect step has run, collaboration_plan.strategy is one
\* of collaborative, sql_only, code_only in every state, the final one too.
C6_StrategyEnumerated ==
    architect_out # None => StrategyOf(state) \in Strategies

\* C7: the strategy route_after_sql reads is the one route_after_architect
\* read in the same invocation, and it is collaborative or sql_only; between
\* the architect step and the developer step collaboration_plan is the one
\* the architect step returned.
C7_StrategyHeldFixed ==
    /\ routed.sql.strategy # "" =>
           /\ routed.sql.strategy = routed.architect.strategy
           /\ routed.sql.strategy \in {"collaborative", "sql_only"}
    /\ pc \in {"route_after_architect", "sql_analyst", "route_after_sql", "developer"} =>
           state["collaboration_plan"] = enhanced_architect(architect_out).collaboration_plan

C7_Witness ==
    /\ routed.sql.strategy = "sql_only"
    /\ routed.architect.strategy = "sql_only"

\* C8: after sql_analyst_step, sql_queries is the one-element sequence of the
\* agent's query when the agent returned a result with a non-empty query and
\* the empty sequence when it returned no result or an empty query;
\* sql_analysis_result is what the agent returned (None for no result).
C8_SqlQueriesFromResult ==
    pc = "route_after_sql" =>
        IF "sql_analysis_result" \in DOMAIN sql_out
        THEN /\ state["sql_analysis_result"] = sql_out["sql_analysis_result"]
             /\ state["sql_queries"] =
                    IF sql_out["sql_analysis_result"].query # <<>>
                    THEN << sql_out["sql_analysis_result"].query >>
                    ELSE <<>>
        ELSE /\ state["sql_analysis_result"] = None
             /\ state["sql_queries"] = <<>>

C8_Witness ==
    /\ pc = "route_after_sql"
    /\ "sql_analysis_result" \in DOMAIN sql_out
    /\ sql_out["sql_analysis_result"].query # <<>>
    /\ state["sql_queries"] = << sql_out["sql_analysis_result"].query >>

\* C9: sql_queries is non-empty only if the SQL-analyst step has run in the
\* invocation, and it never holds more than one entry.
C9_SqlQueriesOnlyFromAnalyst ==
    /\ state["sql_queries"] # <<>> => Ran("sql_analyst")
    /\ Len(state["sql_queries"]) <= 1

\* C10: when the architect's plan text or research summary contains the
\* marker [SQL_REQUIRED], needs_sql is true, and when either contains
\* [CODE_REQUIRED], needs_code is true, whatever else the texts contain.
C10_MarkerForcesNeed ==
    needs # None =>
        LET plan_text == PlanText(architect_out)
            research_text == ResearchText(architect_out)
        IN  /\ (Contains(plan_text, SQL_REQUIRED)
                  \/ Contains(research_text, SQL_REQUIRED)) => needs.sql
            /\ (Contains(plan_text, CODE_REQUIRED)
                  \/ Contains(research_text, CODE_REQUIRED)) => needs.code

C10_Witness ==
    /\ needs # None
    /\ Contains(ResearchText(architect_out), SQL_REQUIRED)
    /\ ~Contains(PlanText(architect_out), SQL_REQUIRED)
    /\ needs.sql

\* what the architect and the SQL-analyst step wrote is still in the state
StateOfArchitectAndAnalyst ==
    /\ state["research_summary"] = Get(architect_out, "research_summary", <<>>)
    /\ state["implementation_plan"] = Get(architect_out, "implementation_plan", <<>>)
    /\ state["sql_analysis_result"] = Get(sql_out, "sql_analysis_result", None)

AgentQuery(result) ==
    IF "sql_analysis_result" \in DOMAIN result
    THEN result["sql_analysis_result"].query
    ELSE <<>>

\* C11 as stated: with strategy sql_only the workflow ends after the
\* SQL-analyst step with sql_queries non-empty, the developer step never runs
\* and wrote nothing.
C11_SqlOnlyPopulated ==
    (pc = "END" /\ routed.architect.strategy = "sql_only") =>
        /\ trace = <<"architect", "sql_analyst">>
        /\ state["sql_queries"] # <<>>
        /\ developer_in = None /\ developer_out = None

\* C11 amended: with strategy sql_only the developer step never runs and
\* writes nothing, and a run that reaches END executed architect, sql_analyst
\* and holds in sql_queries the agent's query when the agent returned a
\* result with a non-empty query, and nothing otherwise.
C11_SqlOnlyEndsAfterAnalyst ==
    routed.architect.strategy = "sql_only" =>
        /\ pc \in {"sql_analyst", "route_after_sql", "END", "failed"}
        /\ ~Ran("developer")
        /\ developer_in = None /\ developer_out = None
        /\ pc = "END" =>
               /\ trace = <<"architect", "sql_analyst">>
               /\ StateOfArchitectAndAnalyst
               /\ StrategyOf(state) = "sql_only"
               /\ state["sql_queries"] =
                      IF AgentQuery(sql_out) # <<>> THEN << AgentQuery(sql_out) >>
                      ELSE <<>>

C11_Witness ==
    /\ pc = "END"
    /\ routed.architect.strategy = "sql_only"
    /\ AgentQuery(sql_out) = <<>>
    /\ state["sql_queries"] = <<>>

IsSqlSummary(message) ==
    /\ message.type = "ai"
    /\ message.content # <<>>
    /\ message.content[1] = "\n        SQL ANALYSIS RESULTS:\n        \n        Query: "

IsPlanMessage(message) ==
    /\ message.type = "ai"
    /\ message.content # <<>>
    /\ message.content[1] = "\n        ARCHITECT'S IMPLEMENTATION PLAN:\n        "

DeveloperGot(Kind(_)) ==
    \E i \in 1..Len(developer_in["implementation_research_scratchpad"]) :
        Kind(developer_in["implementation_research_scratchpad"][i])

\* C12 as stated: with strategy collaborative the workflow visits architect,
\* sql_analyst, developer and the developer's messages include the SQL summary.
C12_CollaborativeGetsSummary ==
    (pc = "END" /\ routed.architect.strategy = "collaborative") =>
        /\ trace = <<"architect", "sql_analyst", "developer">>
        /\ DeveloperGot(IsSqlSummary)

\* C12 amended: with strategy collaborative the nodes run in the order
\* architect, sql_analyst, developer, and the developer's messages include
\* the SQL summary built from the SQL step's result exactly when the SQL
\* agent returned a result.
C12_CollaborativeOrder ==
    routed.architect.strategy = "collaborative" =>
        /\ IsPrefix(trace, <<"architect", "sql_analyst", "developer">>)
        /\ pc = "END" => trace = <<"architect", "sql_analyst", "developer">>
        /\ developer_in # None =>
               /\ DeveloperGot(IsSqlSummary) <=> "sql_analysis_result" \in DOMAIN sql_out
               /\ "sql_analysis_result" \in DOMAIN sql_out =>
                      \E i \in 1..Len(developer_in["implementation_research_scratchpad"]) :
                          developer_in["implementation_research_scratchpad"][i]
                              = AIMessage(SqlContext(sql_out["sql_analysis_result"]))

C12_Witness ==
    /\ pc = "END"
    /\ routed.architect.strategy = "collaborative"
    /\ DeveloperGot(IsSqlSummary)
    /\ sql_out["sql_analysis_result"].query # <<>>

\* the architect was called in an invocation started with an empty scratchpad
\* (the scratchpad is still the caller's: the developer has returned nothing)
CalledWithEmptyScratchpad ==
    /\ architect_in # None
    /\ developer_out = None
    /\ state["implementation_research_scratchpad"] = <<>>

\* C13 as stated: with an empty scratchpad the architect agent gets exactly
\* one message, embedding the placeholder, and the strategy is code_only.
C13_EmptyScratchpadCodeOnly ==
    CalledWithEmptyScratchpad =>
        /\ Len(architect_in["implementation_research_scratchpad"]) = 1
        /\ Contains(architect_in["implementation_research_scratchpad"][1].content,
                    PLACEHOLDER)
        /\ needs # None => StrategyOf(state) = "code_only"

\* C13 amended: with an empty scratchpad the architect agent gets exactly one
\* message, a human message embedding the placeholder, and the strategy is
\* the one the classification of the agent's output gives: code_only exactly
\* when needs_sql is false.
C13_EmptyScratchpadPlaceholder ==
    CalledWithEmptyScratchpad =>
        /\ Len(architect_in["implementation_research_scratchpad"]) = 1
        /\ architect_in["implementation_research_scratchpad"][1].type = "human"
        /\ Contains(architect_in["implementation_research_scratchpad"][1].content,
                    PLACEHOLDER)
        /\ needs # None => (StrategyOf(state) = "code_only" <=> ~needs.sql)

C13_Witness ==
    /\ CalledWithEmptyScratchpad
    /\ needs # None
    /\ needs.sql
    /\ StrategyOf(state) = "sql_only"

Kept(fields) == \A f \in fields : state'[f] = state[f]

\* C14: a node's return value is merged by field name.  The architect step
\* leaves the scratchpad, sql_analysis_result, sql_queries and
\* database_schema as they were and writes the three fields it returns; the
\* SQL-analyst step leaves the scratchpad, research_summary,
\* implementation_plan, collaboration_plan and database_schema as they were
\* and writes the two fields it returns; the developer step leaves every
\* field its result does not name as it was.
C14_NodesWriteOnlyWhatTheyReturn ==
    [][ /\ pc = "architect" =>
               Kept({"implementation_research_scratchpad", "sql_analysis_result",
                     "sql_queries", "database_schema"})
        /\ (pc = "architect" /\ pc' # "failed") =>
               /\ state'["research_summary"] = Get(architect_out', "research_summary", <<>>)
               /\ state'["implementation_plan"] = Get(architect_out', "implementation_plan", <<>>)
               /\ StrategyOf(state') \in Strategies
        /\ pc = "sql_analyst" =>
               Kept({"implementation_research_scratchpad", "research_summary",
                     "implementation_plan", "collaboration_plan", "database_schema"})
        /\ (pc = "sql_analyst" /\ pc' # "failed") =>
               state'["sql_analysis_result"] = Get(sql_out', "sql_analysis_result", None)
        /\ (pc = "developer" /\ pc' # "failed") =>
               Kept(Fields \ DOMAIN developer_out')
      ]_vars

C14_Witness ==
    /\ pc = "route_after_sql"
    /\ state["implementation_research_scratchpad"] # <<>>
    /\ state["research_summary"] # <<>>
    /\ state["implementation_plan"] # <<>>
    /\ state["database_schema"] # <<>>
    /\ state["sql_queries"] # <<>>

\* C15: when the agent call of a node raises, the step updates no field of
\* the state, no router is evaluated, the invocation is over with the failure
\* (it is not retried or caught), and nothing runs after it.
C15_FailurePropagates ==
    [][ /\ pc # "failed"
        /\ (pc = "architect" /\ architect_out' = None) =>
               (pc' = "failed" /\ state' = state /\ routed' = routed)
        /\ (pc = "sql_analyst" /\ sql_out' = None) =>
               (pc' = "failed" /\ state' = state /\ routed' = routed)
        /\ (pc = "developer" /\ developer_out' = None) =>
               (pc' = "failed" /\ state' = state /\ routed' = routed)
      ]_vars

C15_Witness ==
    /\ pc = "failed"
    /\ trace = <<"architect", "sql_analyst">>
    /\ sql_out = None
    /\ routed.sql = NotRouted
    /\ state["sql_analysis_result"] = None

\* C16: every invocation comes to its end, at END unless an agent call
\* raised, after two or three node executions; at no time have more than
\* three nodes executed or has a node executed twice.
C16_Terminates ==
    /\ [](/\ Len(trace) <= 3
          /\ \A i, j \in 1..Len(trace) : trace[i] = trace[j] => i = j
          /\ pc = "END" => Len(trace) \in {2, 3})
    /\ <>(pc = "END" \/ pc = "failed")

C16_Witness ==
    /\ pc = "END"
    /\ Len(trace) = 3
    /\ architect_out # None /\ sql_out # None /\ developer_out # None

\* for each collaboration plan two states that differ in every other field
ReferenceStates ==
    { [Defaults EXCEPT !.collaboration_plan = cp] : cp \in CollaborationPlans }
    \cup
    { [implementation_research_scratchpad |-> << HumanMessage(<<"F","i","x"," ","i","t">>) >>,
       research_summary |-> SQL_REQUIRED,
       implementation_plan |-> << <<<<"t","a","s","k","s">>, CODE_REQUIRED>> >>,
       collaboration_plan |-> cp,
       sql_analysis_result |-> SQLAnalysisResult(<<"S","E","L","E","C","T"," ","1">>, <<>>),
       sql_queries |-> << <<"S","E","L","E","C","T"," ","1">> >>,
       database_schema |-> <<"t","(","i","d",")">>] : cp \in CollaborationPlans }

\* C17: a router returns on a state what it returns on every other state
\* with the same collaboration_plan.strategy, whatever the scratchpad, plan,
\* summary, SQL result, queries and schema of the two are, so any two states
\* that agree on the strategy get the same node; and a router leaves the
\* state as it is.
C17_RoutersReadOnlyStrategy ==
    [][ /\ pc = "route_after_architect" =>
               /\ state' = state
               /\ \A other \in ReferenceStates :
                      StrategyOf(other) = StrategyOf(state) =>
                          route_after_architect(other) = routed'.architect.next
        /\ pc = "route_after_sql" =>
               /\ state' = state
               /\ \A other \in ReferenceStates :
                      StrategyOf(other) = StrategyOf(state) =>
                          route_after_sql(other) = routed'.sql.next
      ]_vars

C17_Witness ==
    /\ routed.sql.next = "developer"
    /\ StrategyOf(state) = "collaborative"
    /\ state["sql_queries"] = <<>>
    /\ state["implementation_research_scratchpad"] # <<>>

\* C18: the messages developer_step passes to the developer agent are the
\* state's scratchpad, then one SQL summary iff sql_analysis_result is
\* present, then one plan message iff implementation_plan is non-empty, and
\* nothing else; the state's scratchpad gets none of the two (it changes only
\* by what the agent returns for it); and on the path architect, developer
\* no SQL summary is appended.
C18_DeveloperMessages ==
    [][ pc = "developer" =>
          LET pad == state["implementation_research_scratchpad"]
              messages == developer_in'["implementation_research_scratchpad"]
              has_sql == state["sql_analysis_result"] # None
              has_plan == state["implementation_plan"] # <<>>
              n == Len(pad)
          IN  /\ Len(messages) = n + (IF has_sql THEN 1 ELSE 0)
                                   + (IF has_plan THEN 1 ELSE 0)
              /\ SubSeq(messages, 1, n) = pad
              /\ has_sql => IsSqlSummary(messages[n + 1])
              /\ has_plan => IsPlanMessage(messages[Len(messages)])
              /\ \A i \in (n + 1)..Len(messages) :
                     /\ IsSqlSummary(messages[i]) => (has_sql /\ i = n + 1)
                     /\ IsPlanMessage(messages[i]) => (has_plan /\ i = Len(messages))
              /\ state'["implementation_research_scratchpad"] =
                     pad \o (IF pc' = "failed" THEN <<>>
                             ELSE Get(developer_out',
                                      "implementation_research_scratchpad", <<>>))
              /\ trace = <<"architect">> => ~has_sql
      ]_vars

C18_Witness ==
    /\ developer_in # None
    /\ state["implementation_research_scratchpad"] # <<>>
    /\ Len(developer_in["implementation_research_scratchpad"])
           = Len(state["implementation_research_scratchpad"]) + 2
    /\ DeveloperGot(IsSqlSummary)
    /\ DeveloperGot(IsPlanMessage)

\* C19: when the architect agent's result has neither research_summary nor
\* implementation_plan, the architect step stores the empty string and the
\* empty mapping, needs_sql and needs_code are false, the strategy is
\* code_only, the router sends the run to the developer (the SQL analyst
\* never runs), and the developer agent is invoked with an empty
\* implementation_plan and no plan message.
C19_EmptyArchitectResult ==
    (architect_out # None /\ DOMAIN architect_out = {}) =>
        /\ ~needs.sql /\ ~needs.code
        /\ developer_out = None =>
               /\ state["research_summary"] = <<>>
               /\ state["implementation_plan"] = <<>>
               /\ StrategyOf(state) = "code_only"
        /\ pc \in {"route_after_architect", "developer", "END", "failed"}
        /\ routed.architect.next \in {"", "developer"}
        /\ ~Ran("sql_analyst")
        /\ pc = "END" => trace = <<"architect", "developer">>
        /\ developer_in # None =>
               /\ developer_in["implementation_plan"] = <<>>
               /\ ~DeveloperGot(IsPlanMessage)
               /\ ~DeveloperGot(IsSqlSummary)

C19_Witness ==
    /\ architect_out # None
    /\ DOMAIN architect_out = {}
    /\ pc = "END"
    /\ developer_in # None
    /\ developer_in["implementation_plan"] = <<>>

\* the sources cfg is built from, in list order: the vault data first when
\* TOKEN is set and the vault answered, then shared, environment class,
\* process environment
SourcesOf(env, v) ==
    (IF TokenSet(env) /\ ~v.raises THEN <<v.data>> ELSE <<>>)
    \o <<convert_class_to_json(Shared(env)), convert_class_to_json(Conf), OsEnv(env)>>

\* every key of a source is an attribute, with the value of the last source
\* in the list that has the key
LastWriterWins(attrs, sources) ==
    /\ DOMAIN attrs = UNION { DOMAIN sources[i] : i \in 1..Len(sources) }
    /\ \A k \in DOMAIN attrs :
          LET last == CHOOSE i \in 1..Len(sources) :
                          /\ k \in DOMAIN sources[i]
                          /\ \A j \in (i + 1)..Len(sources) : k \notin DOMAIN sources[j]
          IN  attrs[k] = sources[last][k]

\* C20: once the import of the config package is over, it has not raised,
\* a cfg object exists, and cfg holds the sources in list order with the
\* last writer of a key winning: vault, shared, environment class, process
\* environment when TOKEN is set and the vault answered, and shared,
\* environment class, process environment otherwise.
C20_ConfigAssembly ==
    config_pc # "import" =>
        /\ config_pc = "loaded"
        /\ cfg # None
        /\ LastWriterWins(cfg, SourcesOf(environ, vault))

\* when every environment value that passes isdigit() is one int() accepts,
\* the assembly is as C20 states it
C20_AssemblyWhenEnvConverts ==
    (config_pc # "import" /\ ~OsEnvRaises(environ)) =>
        /\ config_pc = "loaded"
        /\ cfg # None
        /\ LastWriterWins(cfg, SourcesOf(environ, vault))

\* the vault answered with a key that shared also has, and cfg exists
C20_VaultOverridden ==
    /\ config_pc = "loaded"
    /\ TokenSet(environ)
    /\ ~vault.raises
    /\ \E k \in DOMAIN vault.data :
          k \in DOMAIN Shared(environ) /\ cfg[k] # vault.data[k]

====
